---- MODULE Spec2Model ----
(***************************************************************************)
(* Model of src/src/core/api_client.py: the request executor               *)
(* (APIClient._make_api_request_async), the run polling loop               *)
(* (APIClient._check_run_status), the worker pool they share and           *)
(* APIClient.cleanup.  Time is the event loop's clock in whole seconds; of  *)
(* the clock the model keeps what the code reads, the time elapsed since   *)
(* start_time, and stops counting once it is past run_timeout; of the run  *)
(* object a status read returns it keeps, past the iteration that read it, *)
(* the one field the loop reads again, assistant_id.                       *)
(***************************************************************************)
EXTENDS Integers, Sequences, FiniteSets, TLC

(* ---------------------------------------------------------------------- *)
(* Bounds of the exploration                                               *)
(* ---------------------------------------------------------------------- *)
MaxRequestRetries == 3
MaxBaseTimeout == 2
MaxCalls == 3
MaxPollRequestRetries == 2
MaxPollBaseTimeout == 1
MaxRunRetries == 2
MaxRunTimeout == 1
MaxWindowRunTimeout == 3
MaxCleanupCalls == 2
MaxThreadWork == 4
MaxSessionRequestRetries == 2
MaxSessionBaseTimeout == 1
MaxSessionRunRetries == 1
MaxSessionRunTimeout == 1

(* ---------------------------------------------------------------------- *)
(* Program constants                                                       *)
(* ---------------------------------------------------------------------- *)
max_workers == 4
poll_interval == 1
backoff_unit == 1

None == [kind |-> "None"]

(* The thread_id parameter of _check_run_status: it is never assigned *)
thread_id == "thread"

(* Keyword arguments of a remote call *)
NoArgs == [thread_id |-> "none"]

(* `thread_id=thread_id, run_id=run_id` of runs.retrieve and runs.cancel *)
RunArgs(id) == [thread_id |-> thread_id, run_id |-> id]

(* `thread_id=thread_id, assistant_id=run.assistant_id` of runs.create *)
CreateArgs(a) == [thread_id |-> thread_id, assistant_id |-> a]

Statuses ==
  {"queued", "in_progress", "completed", "requires_action",
   "failed", "expired", "cancelled"}

RecoverableStatuses == {"failed", "expired", "cancelled"}

NonTerminalStatuses == {"queued", "in_progress"}

(* Kinds of exception a remote operation can raise by itself.  A timeout   *)
(* of its own (a socket timeout, say) is the built-in TimeoutError: from    *)
(* Python 3.11 on that class is asyncio.TimeoutError, before it is a class *)
(* of its own.                                                             *)
OpErrorKinds == {"APIError", "TimeoutError", "asyncio.TimeoutError"}

VARIABLES
  max_retries, base_timeout, max_run_retries, run_timeout,
  run_status_check, pool_shutdown, cleanup_calls, abandoned,
  thread_work, work_queue, thread_future,
  calls,
  elapsed_time,
  epc, func, args, retry, timeout, waiter, last_error, eresult,
  invocations, sleeps, deadlines, outcomes,
  ppc, callback, run_id, assistant_id, retry_count, presult,
  creates, cancels, poll_sleeps, callbacks, reads, timeouts_seen, next_id,
  ipc, iresult, is_completed, thread,
  other

cfgVars == <<max_retries, base_timeout, max_run_retries, run_timeout>>
poolVars == <<run_status_check, pool_shutdown, cleanup_calls, abandoned,
              thread_work, work_queue, thread_future>>
execVars == <<epc, func, args, retry, timeout, waiter, last_error, eresult,
              invocations, sleeps, deadlines, outcomes>>
pollVars == <<ppc, callback, run_id, assistant_id, retry_count, presult,
              creates, cancels, poll_sleeps, callbacks, reads, timeouts_seen>>
interviewVars == <<ipc, iresult, is_completed, thread>>
clockVars == <<elapsed_time>>
vars == <<cfgVars, poolVars, calls, clockVars, next_id, execVars, pollVars,
          interviewVars, other>>

(* ---------------------------------------------------------------------- *)
(* Exceptions and values                                                   *)
(* ---------------------------------------------------------------------- *)
OpError(k, i) == [kind |-> k, src |-> "op", at |-> i, args |-> <<>>]

WaitForTimeout(i) ==
  [kind |-> "asyncio.TimeoutError", src |-> "wait_for", at |-> i, args |-> <<>>]

PoolClosed(i) ==
  [kind |-> "RuntimeError", src |-> "pool", at |-> i, args |-> <<>>]

(* Mutation: the message names the index of the attempt *)
RequestTimedOut_index(i, n) ==
  [kind |-> "TimeoutError", src |-> "execute", at |-> i, args |-> <<i>>]

(* raise TimeoutError(f"API request failed after {self.max_retries} attempts") *)
RequestTimedOut(i, n) ==
  [kind |-> "TimeoutError", src |-> "execute", at |-> i, args |-> <<n>>]

(* Mutation: the exhaustion after a failed status raises the timeout error *)
RunFailed_as_timeout(n) ==
  [kind |-> "TimeoutError", src |-> "poll_timeout", at |-> 0, args |-> <<n>>]

(* raise Exception(f"Run failed after {self.max_run_retries} attempts") *)
RunFailed(n) ==
  [kind |-> "Exception", src |-> "poll_status", at |-> 0, args |-> <<n>>]

(* raise TimeoutError(f"Run timed out after {run_timeout} seconds and {max_run_retries} retries") *)
RunTimedOut(t, n) ==
  [kind |-> "TimeoutError", src |-> "poll_timeout", at |-> 0, args |-> <<t, n>>]

(* `except asyncio.TimeoutError` *)
IsAsyncioTimeout(e) == e.kind = "asyncio.TimeoutError"

(* Mutation: the timeout does not grow with the attempt *)
AttemptTimeout_flat(i) == base_timeout

(* timeout = self.base_timeout * (retry + 1) *)
AttemptTimeout(i) == base_timeout * (i + 1)

(* Mutation: one attempt too many *)
AttemptsRemain_extra(i) == i < max_retries

(* `if retry < self.max_retries - 1` *)
AttemptsRemain(i) == i < max_retries - 1

(* Mutation: the backoff does not grow with the attempt *)
BackoffDelay_flat(i) == backoff_unit

(* asyncio.sleep(1 * (retry + 1)) *)
BackoffDelay(i) == backoff_unit * (i + 1)

Min(a, b) == IF a < b THEN a ELSE b

(* elapsed_time is the whole part of loop.time() - start_time, followed up *)
(* to run_timeout, from where on the timeout test holds.  A step that      *)
(* takes time takes d seconds or more: the coroutine goes on when the      *)
(* event loop resumes it, after the parts of a second its own statements   *)
(* take and after whatever else the loop thread was busy with.             *)
Advance(d) ==
  IF ppc = "idle"
    THEN elapsed_time' = 0
    ELSE elapsed_time' \in Min(elapsed_time + d, run_timeout)..run_timeout

(* start_time = asyncio.get_event_loop().time() *)
StartTimer == elapsed_time' = 0

(* What the remote service answers to func *)
RemoteResults(f) ==
  CASE f = "retrieve" ->
         {[id |-> args.run_id, status |-> s, assistant_id |-> "asst"] :
            s \in Statuses}
    [] f = "create" ->
         {[id |-> next_id, status |-> "queued",
           assistant_id |-> args.assistant_id]}
    [] f = "cancel" ->
         {[id |-> args.run_id, status |-> "cancelling",
           assistant_id |-> "asst"]}
    [] OTHER -> {[id |-> 0, status |-> "value", assistant_id |-> "none"]}

(* ---------------------------------------------------------------------- *)
(* Initial state: a constructed APIClient, nothing in flight               *)
(* ---------------------------------------------------------------------- *)
Constructed ==
  /\ run_status_check = TRUE
  /\ calls = 0
  /\ pool_shutdown = FALSE
  /\ cleanup_calls = 0
  /\ abandoned = 0
  /\ thread_work = 0
  /\ work_queue = <<>>
  /\ thread_future = None
  /\ elapsed_time = 0
  /\ epc = "idle"
  /\ func = "none"
  /\ args = NoArgs
  /\ retry = 0
  /\ timeout = 0
  /\ waiter = "none"
  /\ last_error = None
  /\ eresult = None
  /\ invocations = 0
  /\ sleeps = <<>>
  /\ deadlines = <<>>
  /\ outcomes = <<>>
  /\ ppc = "idle"
  /\ callback = FALSE
  /\ run_id = 0
  /\ assistant_id = "none"
  /\ retry_count = 0
  /\ presult = None
  /\ creates = 0
  /\ cancels = 0
  /\ poll_sleeps = 0
  /\ callbacks = <<>>
  /\ reads = [nonterminal |-> 0, recoverable |-> 0, success |-> 0]
  /\ timeouts_seen = 0
  /\ next_id = 1

(* No InterviewSession method is running: the client's methods are called *)
(* directly                                                                *)
NoInterview ==
  /\ ipc = "none"
  /\ iresult = None
  /\ is_completed = FALSE
  /\ thread = None

(* One coroutine uses the client: no other session waits for its turn *)
OneSession == other = None

(* The tunables of a client that runs poll sessions *)
Init ==
  /\ max_retries \in 1..MaxPollRequestRetries
  /\ base_timeout = MaxPollBaseTimeout
  /\ max_run_retries \in 1..MaxRunRetries
  /\ run_timeout \in 1..MaxRunTimeout
  /\ Constructed
  /\ NoInterview
  /\ OneSession

(* The tunables of a client whose callers await single remote calls *)
InitExec ==
  /\ max_retries \in 1..MaxRequestRetries
  /\ base_timeout \in 1..MaxBaseTimeout
  /\ max_run_retries = MaxRunRetries
  /\ run_timeout = MaxRunTimeout
  /\ Constructed
  /\ NoInterview
  /\ OneSession

(* ---------------------------------------------------------------------- *)
(* _make_api_request_async                                                 *)
(* ---------------------------------------------------------------------- *)

(* Entry of _make_api_request_async(func, **kwargs): first iteration of    *)
(* the for loop                                                            *)
StartCall(f, a) ==
  /\ epc' = "submit"
  /\ func' = f
  /\ args' = a
  /\ retry' = 0
  /\ timeout' = AttemptTimeout(0)
  /\ waiter' = "none"
  /\ last_error' = None
  /\ eresult' = None
  /\ invocations' = 0
  /\ sleeps' = <<>>
  /\ deadlines' = <<AttemptTimeout(0)>>
  /\ outcomes' = <<>>

(* The two except clauses: back off and go on, or raise *)
ExecFail(e, outcome) ==
  /\ last_error' = e
  /\ outcomes' = Append(outcomes, outcome)
  /\ IF AttemptsRemain(retry)
       THEN /\ epc' = "backoff"
            /\ sleeps' = Append(sleeps, BackoffDelay(retry))
            /\ eresult' = eresult
       ELSE /\ epc' = "raised"
            /\ sleeps' = sleeps
            /\ eresult' = IF IsAsyncioTimeout(e)
                            THEN RequestTimedOut(retry, max_retries)
                            ELSE e
  /\ waiter' = "none"
  /\ UNCHANGED <<func, args, retry, timeout, deadlines>>

(* The workers of the pool that run a work item: the invocations whose     *)
(* waiter gave up, the work submitted by _run_in_thread and the invocation *)
(* the call in flight is waiting for.                                      *)
BusyWorkers ==
  abandoned + thread_work + (IF epc = "running" THEN 1 ELSE 0)
    + (IF other = None THEN 0 ELSE IF other.epc = "running" THEN 1 ELSE 0)

(* The invocation of the call of the session that waits for its turn on    *)
(* the event loop starts: workers run while its coroutine is suspended.    *)
PeerCallStarts ==
  other' = [other EXCEPT !.epc = "running", !.invocations = @ + 1]

(* The work queue of the pool without the work item of the call: wait_for  *)
(* cancels it at the deadline and no worker runs it.                       *)
WithoutCall(q) == SelectSeq(q, LAMBDA w : w # "call")

(* Mutation: a work item starts at once, free worker or not *)
Submit_eager ==
  /\ epc = "submit"
  /\ IF pool_shutdown
       THEN /\ ExecFail(PoolClosed(retry), "rejected")
            /\ UNCHANGED <<invocations, work_queue>>
       ELSE /\ epc' = "running" /\ invocations' = invocations + 1
            /\ work_queue' = work_queue
            /\ UNCHANGED <<func, args, retry, timeout, waiter, last_error, eresult,
                           sleeps, deadlines, outcomes>>
  /\ UNCHANGED <<cfgVars, other, interviewVars, run_status_check, pool_shutdown,
                 cleanup_calls, abandoned, thread_work, thread_future,
                 calls, clockVars, next_id, pollVars>>

(* run_in_executor(self.thread_pool, ...): a shut down pool refuses the    *)
(* work item, a free worker starts it, otherwise it waits in the queue.    *)
Submit ==
  /\ epc = "submit"
  /\ IF pool_shutdown
       THEN /\ ExecFail(PoolClosed(retry), "rejected")
            /\ UNCHANGED <<invocations, work_queue>>
       ELSE /\ IF BusyWorkers < max_workers
                 THEN /\ epc' = "running"
                      /\ invocations' = invocations + 1
                      /\ work_queue' = work_queue
                 ELSE /\ epc' = "queued"
                      /\ invocations' = invocations
                      /\ work_queue' = Append(work_queue, "call")
            /\ UNCHANGED <<func, args, retry, timeout, waiter, last_error, eresult,
                           sleeps, deadlines, outcomes>>
  /\ UNCHANGED <<cfgVars, other, interviewVars, run_status_check, pool_shutdown,
                 cleanup_calls, abandoned, thread_work, thread_future,
                 calls, clockVars, next_id, pollVars>>

(* A freed worker takes the work item at the head of the queue, if there   *)
(* is one: the invocation of the call in flight starts ("call"), that of   *)
(* the call of the session waiting for its turn ("peer"), or a work item   *)
(* of _run_in_thread; tw is the work of _run_in_thread still running.      *)
WorkerTakes(tw) ==
  IF work_queue = <<>>
    THEN /\ thread_work' = tw
         /\ UNCHANGED <<work_queue, epc, invocations, other>>
    ELSE /\ work_queue' = Tail(work_queue)
         /\ IF Head(work_queue) = "call"
              THEN /\ epc' = "running"
                   /\ invocations' = invocations + 1
                   /\ thread_work' = tw
                   /\ other' = other
              ELSE IF Head(work_queue) = "peer"
                THEN /\ PeerCallStarts
                     /\ thread_work' = tw
                     /\ UNCHANGED <<epc, invocations>>
                ELSE /\ thread_work' = tw + 1
                     /\ UNCHANGED <<epc, invocations, other>>

(* The worker of the invocation that the call was waiting for is free: the *)
(* queue holds work of _run_in_thread, or the work item of the call of the *)
(* session waiting for its turn.                                           *)
WorkerOfCallTakes ==
  IF epc = "running" /\ work_queue # <<>>
    THEN /\ work_queue' = Tail(work_queue)
         /\ IF Head(work_queue) = "peer"
              THEN PeerCallStarts /\ thread_work' = thread_work
              ELSE other' = other /\ thread_work' = thread_work + 1
    ELSE UNCHANGED <<thread_work, work_queue, other>>

(* Mutation: a freed worker does not take the work item in the queue *)
WorkerFinishes_skips_queue ==
  /\ abandoned > 0
  /\ abandoned' = abandoned - 1
  /\ UNCHANGED <<cfgVars, other, interviewVars, run_status_check, pool_shutdown,
                 cleanup_calls, thread_work, work_queue, thread_future,
                 calls, clockVars, next_id, execVars, pollVars>>

(* An invocation whose waiter gave up finishes and frees its worker; the   *)
(* worker takes the next work item of the queue, if there is one.          *)
WorkerFinishes ==
  /\ abandoned > 0
  /\ abandoned' = abandoned - 1
  /\ WorkerTakes(thread_work)
  /\ UNCHANGED <<cfgVars, interviewVars, run_status_check, pool_shutdown,
                 cleanup_calls, thread_future, calls, clockVars, next_id,
                 func, args, retry, timeout, waiter, last_error, eresult, sleeps,
                 deadlines, outcomes, pollVars>>

(* _run_in_thread(func): thread_pool.submit gives a Future, a free worker  *)
(* starts the work or it waits in the queue; a shut down pool refuses it.  *)
RunInThread ==
  /\ thread_work + Len(WithoutCall(work_queue)) < MaxThreadWork
  /\ IF pool_shutdown
       THEN /\ thread_future' = PoolClosed(0)
            /\ UNCHANGED <<thread_work, work_queue>>
       ELSE /\ thread_future' = [kind |-> "Future"]
            /\ IF BusyWorkers < max_workers
                 THEN /\ thread_work' = thread_work + 1
                      /\ work_queue' = work_queue
                 ELSE /\ thread_work' = thread_work
                      /\ work_queue' = Append(work_queue, "thread")
  /\ UNCHANGED <<cfgVars, other, interviewVars, run_status_check, pool_shutdown,
                 cleanup_calls, abandoned, calls, clockVars, next_id,
                 execVars, pollVars>>

(* Work submitted by _run_in_thread finishes and frees its worker *)
ThreadWorkFinishes ==
  /\ thread_work > 0
  /\ WorkerTakes(thread_work - 1)
  /\ UNCHANGED <<cfgVars, interviewVars, run_status_check, pool_shutdown,
                 cleanup_calls, abandoned, thread_future, calls,
                 clockVars, next_id, func, args, retry, timeout, waiter,
                 last_error, eresult, sleeps, deadlines, outcomes, pollVars>>

(* The invocation ends on its worker thread, _make_api_request has        *)
(* returned or raised: the worker is free and takes the next work item.    *)
(* The coroutine learns of it when the event loop resumes it.              *)
InvocationEnds ==
  /\ epc = "running"
  /\ epc' = "finished"
  /\ WorkerOfCallTakes
  /\ UNCHANGED <<cfgVars, interviewVars, run_status_check, pool_shutdown,
                 cleanup_calls, abandoned, thread_future, calls, clockVars,
                 next_id, func, args, retry, timeout, waiter, last_error,
                 eresult, invocations, sleeps, deadlines, outcomes, pollVars>>

(* The same for the invocation of the session that waits for its turn *)
PeerInvocationEnds ==
  /\ other # None
  /\ other.epc = "running"
  /\ other' = [other EXCEPT !.epc = "finished"]
  /\ IF work_queue = <<>>
       THEN UNCHANGED <<work_queue, thread_work, epc, invocations>>
       ELSE /\ work_queue' = Tail(work_queue)
            /\ IF Head(work_queue) = "call"
                 THEN /\ epc' = "running"
                      /\ invocations' = invocations + 1
                      /\ thread_work' = thread_work
                 ELSE /\ thread_work' = thread_work + 1
                      /\ UNCHANGED <<epc, invocations>>
  /\ UNCHANGED <<cfgVars, interviewVars, run_status_check, pool_shutdown,
                 cleanup_calls, abandoned, thread_future, calls, clockVars,
                 next_id, func, args, retry, timeout, waiter, last_error,
                 eresult, sleeps, deadlines, outcomes, pollVars>>

(* Mutation: the value of a successful attempt is not returned *)
OpReturns_goes_on ==
  /\ epc = "finished"
  /\ waiter = "none"
  /\ Advance(0)
  /\ \E v \in RemoteResults(func) :
       eresult' = [kind |-> "value", src |-> "op", at |-> retry, val |-> v]
  /\ epc' = IF AttemptsRemain(retry) THEN "backoff" ELSE "returned"
  /\ sleeps' = IF AttemptsRemain(retry)
                 THEN Append(sleeps, BackoffDelay(retry)) ELSE sleeps
  /\ outcomes' = Append(outcomes, "ok")
  /\ next_id' = IF func = "create" THEN next_id + 1 ELSE next_id
  /\ UNCHANGED <<cfgVars, other, interviewVars, poolVars, calls, func, args,
                 retry, timeout, waiter, last_error, invocations, deadlines,
                 pollVars>>

(* The coroutine is resumed and wait_for finds the future done: it returns *)
(* the operation's value.  The deadline is not looked at: the value of an  *)
(* invocation that ended while the loop thread was busy, or waiting in a   *)
(* cleanup(), is returned even when its deadline has passed meanwhile.     *)
OpReturns ==
  /\ epc = "finished"
  /\ waiter = "none"
  /\ Advance(0)
  /\ \E v \in RemoteResults(func) :
       eresult' = [kind |-> "value", src |-> "op", at |-> retry, val |-> v]
  /\ epc' = "returned"
  /\ outcomes' = Append(outcomes, "ok")
  /\ next_id' = IF func = "create" THEN next_id + 1 ELSE next_id
  /\ UNCHANGED <<cfgVars, other, interviewVars, poolVars, calls, func, args,
                 retry, timeout, waiter, last_error, invocations, sleeps,
                 deadlines, pollVars>>

(* The coroutine is resumed and wait_for finds the future done with the    *)
(* exception the operation raised: `except Exception`, or, for a timeout   *)
(* of the operation's own, `except asyncio.TimeoutError`.                  *)
OpRaises ==
  /\ epc = "finished"
  /\ waiter = "none"
  /\ Advance(0)
  /\ \E k \in OpErrorKinds : ExecFail(OpError(k, retry), "error")
  /\ UNCHANGED <<cfgVars, other, interviewVars, poolVars, calls, next_id,
                 invocations, pollVars>>

(* Mutation: the invocation is stopped at the deadline and frees its worker *)
DeadlineExpires_interrupts ==
  /\ epc \in {"running", "queued"}
  /\ waiter = "none"
  /\ Advance(timeout)
  /\ waiter' = "timed_out"
  /\ epc' = IF epc = "running" THEN "finished" ELSE epc
  /\ UNCHANGED <<cfgVars, other, interviewVars, poolVars, calls, next_id,
                 func, args, retry, timeout, last_error, eresult,
                 invocations, sleeps, deadlines, outcomes, pollVars>>

(* The timer of wait_for fires before the future is done: wait_for cancels *)
(* the future it awaits and waits for the cancellation.  The work item of  *)
(* the pool is where it was, in the queue or on its worker.                *)
DeadlineExpires ==
  /\ epc \in {"running", "queued"}
  /\ waiter = "none"
  /\ Advance(timeout)
  /\ waiter' = "timed_out"
  /\ UNCHANGED <<cfgVars, other, interviewVars, poolVars, calls, next_id,
                 epc, func, args, retry, timeout, last_error, eresult,
                 invocations, sleeps, deadlines, outcomes, pollVars>>

(* The next turn of the event loop passes the cancellation on to the      *)
(* future of the pool: a work item no worker has taken leaves the queue    *)
(* and never runs, an invocation that runs or has ended is not touched.    *)
CancelReachesPool ==
  /\ waiter = "timed_out"
  /\ waiter' = "cancelled"
  /\ IF epc = "queued"
       THEN /\ epc' = "cancelled"
            /\ work_queue' = WithoutCall(work_queue)
       ELSE UNCHANGED <<epc, work_queue>>
  /\ UNCHANGED <<cfgVars, other, interviewVars, run_status_check,
                 pool_shutdown, cleanup_calls, abandoned, thread_work,
                 thread_future, calls, clockVars, next_id, func, args,
                 retry, timeout, last_error, eresult, invocations, sleeps,
                 deadlines, outcomes, pollVars>>

(* The coroutine is resumed in `except asyncio.TimeoutError`: an           *)
(* invocation that still runs keeps its worker, nobody waits for it.       *)
TimeoutCaught ==
  /\ waiter = "cancelled"
  /\ abandoned' = IF epc = "running" THEN abandoned + 1 ELSE abandoned
  /\ ExecFail(WaitForTimeout(retry),
              IF epc = "cancelled" THEN "starved" ELSE "timeout")
  /\ UNCHANGED <<cfgVars, other, interviewVars, run_status_check,
                 pool_shutdown, cleanup_calls, thread_work, work_queue,
                 thread_future, calls, clockVars, next_id, invocations,
                 pollVars>>

(* The backoff sleep ends: next iteration of the for loop *)
BackoffDone ==
  /\ epc = "backoff"
  /\ Advance(sleeps[Len(sleeps)])
  /\ retry' = retry + 1
  /\ timeout' = AttemptTimeout(retry + 1)
  /\ deadlines' = Append(deadlines, AttemptTimeout(retry + 1))
  /\ epc' = "submit"
  /\ UNCHANGED <<cfgVars, other, interviewVars, poolVars, calls, next_id,
                 func, args, waiter, last_error, eresult, invocations,
                 sleeps, outcomes, pollVars>>

(* A caller outside the polling loop awaits one remote call, and then the  *)
(* next one.                                                               *)
DirectCall ==
  /\ epc \in {"idle", "returned", "raised"}
  /\ ppc = "idle"
  /\ calls < MaxCalls
  /\ calls' = calls + 1
  /\ StartCall("op", NoArgs)
  /\ UNCHANGED <<cfgVars, other, interviewVars, poolVars, clockVars, next_id,
                 pollVars>>

(* self.thread_pool.shutdown(wait=True) returns when every worker has      *)
(* ended, the work in the queue done.  Called on the thread of the event   *)
(* loop it keeps the loop waiting: no coroutine takes a step meanwhile,    *)
(* and the invocation of the call in flight has ended, its future done,    *)
(* when the loop goes on.  Called on another thread it leaves the loop     *)
(* running while the workers go on.  No caller of cleanup() is in the      *)
(* sources: either is possible.  A cleanup() called again is followed in   *)
(* one step: its line 132 changes nothing.                                 *)
ShutdownWaits(on_loop) ==
  IF on_loop
    THEN /\ abandoned' = 0
         /\ thread_work' = 0
         /\ work_queue' = <<>>
         /\ epc' = IF epc \in {"running", "queued"} THEN "finished" ELSE epc
         /\ invocations' = IF epc = "queued" THEN invocations + 1
                                             ELSE invocations
         /\ other' =
              IF other = None THEN None
              ELSE [other EXCEPT
                      !.epc = IF @ \in {"running", "queued"} THEN "finished"
                                                             ELSE @,
                      !.invocations = IF other.epc = "queued" THEN @ + 1
                                                              ELSE @]
    ELSE UNCHANGED <<abandoned, thread_work, work_queue, epc, invocations,
                     other>>

(* APIClient.cleanup, called for the first time on the thread of the      *)
(* event loop: line 132 and line 133, no coroutine takes a step between.   *)
Cleanup ==
  /\ cleanup_calls = 0
  /\ run_status_check
  /\ cleanup_calls' = cleanup_calls + 1
  /\ run_status_check' = FALSE
  /\ pool_shutdown' = TRUE
  /\ ShutdownWaits(TRUE)
  /\ UNCHANGED <<cfgVars, interviewVars, thread_future, calls, clockVars,
                 next_id, func, args, retry, timeout, waiter, last_error, eresult,
                 sleeps, deadlines, outcomes, pollVars>>

(* APIClient.cleanup, called for the first time on another thread, line    *)
(* 132: self._run_status_check = False.  No lock is held: the event loop   *)
(* goes on before line 133 is run.                                         *)
CleanupClearsFlag ==
  /\ cleanup_calls = 0
  /\ run_status_check
  /\ run_status_check' = FALSE
  /\ UNCHANGED <<cfgVars, other, interviewVars, pool_shutdown, cleanup_calls,
                 abandoned, thread_work, work_queue, thread_future, calls,
                 clockVars, next_id, execVars, pollVars>>

(* The same call, line 133: self.thread_pool.shutdown(wait=True), the      *)
(* event loop going on while the other thread waits for the workers.       *)
CleanupShutsPool ==
  /\ cleanup_calls = 0
  /\ ~run_status_check
  /\ cleanup_calls' = cleanup_calls + 1
  /\ pool_shutdown' = TRUE
  /\ ShutdownWaits(FALSE)
  /\ UNCHANGED <<cfgVars, interviewVars, run_status_check, thread_future,
                 calls, clockVars, next_id, func, args, retry, timeout, waiter,
                 last_error, eresult, sleeps, deadlines, outcomes, pollVars>>

CleanupNext ==
  \/ Cleanup
  \/ CleanupClearsFlag
  \/ CleanupShutsPool

(* Mutation: a repeated cleanup opens the pool again *)
CleanupAgain_reopens ==
  /\ cleanup_calls > 0
  /\ cleanup_calls < MaxCleanupCalls
  /\ cleanup_calls' = cleanup_calls + 1
  /\ run_status_check' = FALSE
  /\ pool_shutdown' = FALSE
  /\ \E on_loop \in BOOLEAN : ShutdownWaits(on_loop)
  /\ UNCHANGED <<cfgVars, interviewVars, thread_future, calls, clockVars,
                 next_id, func, args, retry, timeout, waiter, last_error, eresult,
                 sleeps, deadlines, outcomes, pollVars>>

(* APIClient.cleanup, called again on a client already torn down: the same *)
(* two statements, on a flag already false and a pool already shut down.   *)
CleanupAgain ==
  /\ cleanup_calls > 0
  /\ cleanup_calls < MaxCleanupCalls
  /\ cleanup_calls' = cleanup_calls + 1
  /\ run_status_check' = FALSE
  /\ pool_shutdown' = TRUE
  /\ \E on_loop \in BOOLEAN : ShutdownWaits(on_loop)
  /\ UNCHANGED <<cfgVars, interviewVars, thread_future, calls, clockVars,
                 next_id, func, args, retry, timeout, waiter, last_error, eresult,
                 sleeps, deadlines, outcomes, pollVars>>

ExecNext ==
  \/ Submit
  \/ WorkerFinishes
  \/ InvocationEnds
  \/ OpReturns
  \/ OpRaises
  \/ DeadlineExpires
  \/ CancelReachesPool
  \/ TimeoutCaught
  \/ BackoffDone

(* ---------------------------------------------------------------------- *)
(* _check_run_status                                                       *)
(* ---------------------------------------------------------------------- *)

(* Mutation: a cancelled run is not taken for a failed one *)
IsRecoverable_partial(r) == r.status \in {"failed", "expired"}

(* `run.status in ["failed", "expired", "cancelled"]` *)
IsRecoverable(r) == r.status \in RecoverableStatuses

(* Mutation: only "queued" keeps the session polling *)
IsFinal_early(r) == r.status # "queued"

(* `run.status not in ["queued", "in_progress"]` *)
IsFinal(r) == r.status \notin NonTerminalStatuses

(* Mutation: one recreation too many *)
RunRetriesRemain_extra(c) == c <= max_run_retries

(* `retry_count < self.max_run_retries` *)
RunRetriesRemain(c) == c < max_run_retries

(* Mutation: the run times out a second early *)
RunTimeoutElapsed_early(t) == t + 1 >= run_timeout

(* `elapsed_time > self.run_timeout`: loop.time() - start_time is a float,  *)
(* t whole seconds and the fraction of a second that the statements between *)
(* the two readings of the clock take, so it exceeds run_timeout, a whole  *)
(* number here, from t = run_timeout on.                                   *)
RunTimeoutElapsed(t) == t + 1 > run_timeout

CountRead(r) ==
  IF IsRecoverable(r)
    THEN [reads EXCEPT !.recoverable = @ + 1]
    ELSE IF IsFinal(r)
      THEN [reads EXCEPT !.success = @ + 1]
      ELSE [reads EXCEPT !.nonterminal = @ + 1]

(* The awaited call is over and nothing is awaited in its place *)
ExecIdle ==
  /\ epc' = "idle"
  /\ func' = "none"
  /\ args' = NoArgs
  /\ retry' = 0
  /\ timeout' = 0
  /\ waiter' = "none"
  /\ last_error' = None
  /\ eresult' = None
  /\ invocations' = 0
  /\ sleeps' = <<>>
  /\ deadlines' = <<>>
  /\ outcomes' = <<>>

(* Entry of _check_run_status(thread_id, run_id, callback); an             *)
(* InterviewSession method passes no callback                              *)
CheckRunStatus ==
  /\ ppc = "idle"
  /\ epc = "idle"
  /\ ipc \in {"none", "poll"}
  /\ callback' \in (IF ipc = "poll" THEN {FALSE} ELSE BOOLEAN)
  /\ StartTimer
  /\ retry_count' = 0
  /\ ppc' = "loop"
  /\ UNCHANGED <<cfgVars, other, interviewVars, poolVars, calls, next_id,
                 execVars, run_id, assistant_id,
                 presult, creates, cancels, poll_sleeps, callbacks, reads,
                 timeouts_seen>>

(* Mutation: the loop does not test the flag *)
LoopTest_deaf ==
  /\ ppc = "loop"
  /\ StartCall("retrieve", RunArgs(run_id))
  /\ ppc' = "retrieve"
  /\ presult' = presult
  /\ UNCHANGED <<cfgVars, other, interviewVars, poolVars, calls, clockVars,
                 next_id, callback,
                 run_id, assistant_id, retry_count, creates, cancels,
                 poll_sleeps, callbacks, reads, timeouts_seen>>

(* `while self._run_status_check:` and the status read it guards *)
LoopTest ==
  /\ ppc = "loop"
  /\ IF run_status_check
       THEN /\ StartCall("retrieve", RunArgs(run_id))
            /\ ppc' = "retrieve"
            /\ presult' = presult
       ELSE /\ ppc' = "stopped"
            /\ presult' = None
            /\ UNCHANGED execVars
  /\ UNCHANGED <<cfgVars, other, interviewVars, poolVars, calls, clockVars,
                 next_id, callback, run_id, assistant_id,
                 retry_count, creates, cancels, poll_sleeps,
                 callbacks, reads, timeouts_seen>>

(* What a completion callback raises: anything *)
CallbackErrors ==
  {[kind |-> k, src |-> "callback", at |-> 0, args |-> <<>>] :
     k \in {"ValueError", "TimeoutError"}}

(* `await callback(run)` is over: `return run`, or the callback's error,   *)
(* logged by `except Exception` and raised again.  The clock is not read   *)
(* any more.                                                               *)
CallbackDone ==
  /\ ppc = "callback"
  /\ \/ /\ ppc' = "returned"
        /\ presult' = callbacks[Len(callbacks)]
     \/ /\ ppc' = "raised"
        /\ presult' \in CallbackErrors
  /\ UNCHANGED <<cfgVars, other, interviewVars, poolVars, calls, clockVars,
                 next_id, execVars, callback, run_id, assistant_id,
                 retry_count, creates, cancels, poll_sleeps, callbacks,
                 reads, timeouts_seen>>

(* Mutation: a status read that raised is taken for a failed run *)
RetrieveRaised_recovers ==
  /\ ppc = "retrieve"
  /\ epc = "raised"
  /\ IF RunRetriesRemain(retry_count)
       THEN /\ retry_count' = retry_count + 1
            /\ ppc' = "loop"
            /\ presult' = presult
       ELSE /\ ppc' = "raised"
            /\ presult' = eresult
            /\ retry_count' = retry_count
  /\ ExecIdle
  /\ UNCHANGED <<cfgVars, other, interviewVars, poolVars, calls, clockVars,
                 next_id, callback,
                 run_id, assistant_id, creates, cancels, poll_sleeps,
                 callbacks, reads, timeouts_seen>>

(* The status read raised: the session raises the same error *)
RetrieveRaised ==
  /\ ppc = "retrieve"
  /\ epc = "raised"
  /\ ppc' = "raised"
  /\ presult' = eresult
  /\ ExecIdle
  /\ UNCHANGED <<cfgVars, other, interviewVars, poolVars, calls, clockVars,
                 next_id, callback, run_id, assistant_id,
                 retry_count, creates, cancels, poll_sleeps,
                 callbacks, reads, timeouts_seen>>

(* Mutation: the wall-clock check comes before the look at the status *)
RetrieveReturned_clock_first ==
  /\ ppc = "retrieve"
  /\ epc = "returned"
  /\ LET r == eresult.val IN
       /\ assistant_id' = r.assistant_id
       /\ reads' = CountRead(r)
       /\ IF RunTimeoutElapsed(elapsed_time)
            THEN /\ timeouts_seen' = timeouts_seen + 1
                 /\ IF RunRetriesRemain(retry_count)
                      THEN /\ retry_count' = retry_count + 1
                           /\ StartCall("cancel", RunArgs(run_id))
                           /\ cancels' = cancels + 1
                           /\ ppc' = "cancel"
                           /\ presult' = presult
                      ELSE /\ ppc' = "raised"
                           /\ presult' = RunTimedOut(run_timeout,
                                                     max_run_retries)
                           /\ ExecIdle
                           /\ UNCHANGED <<retry_count, cancels>>
                 /\ UNCHANGED <<creates, callbacks>>
            ELSE IF IsRecoverable(r)
              THEN /\ IF RunRetriesRemain(retry_count)
                        THEN /\ retry_count' = retry_count + 1
                             /\ StartCall("create", CreateArgs(r.assistant_id))
                             /\ creates' = creates + 1
                             /\ ppc' = "create_status"
                             /\ presult' = presult
                        ELSE /\ ppc' = "raised"
                             /\ presult' = RunFailed(max_run_retries)
                             /\ ExecIdle
                             /\ UNCHANGED <<retry_count, creates>>
                   /\ UNCHANGED <<cancels, callbacks, timeouts_seen>>
              ELSE IF IsFinal(r)
                THEN /\ IF callback
                          THEN /\ callbacks' = Append(callbacks, r)
                               /\ ppc' = "callback"
                               /\ presult' = presult
                          ELSE /\ callbacks' = callbacks
                               /\ ppc' = "returned"
                               /\ presult' = r
                     /\ ExecIdle
                     /\ UNCHANGED <<retry_count, creates, cancels,
                                    timeouts_seen>>
                ELSE /\ ppc' = "sleep"
                     /\ ExecIdle
                     /\ UNCHANGED <<retry_count, presult, creates, cancels,
                                    callbacks, timeouts_seen>>
  /\ UNCHANGED <<cfgVars, other, interviewVars, poolVars, calls, clockVars,
                 next_id, callback,
                 run_id, poll_sleeps>>

(* The status read returned a run: the body of the loop up to its next await *)
RetrieveReturned ==
  /\ ppc = "retrieve"
  /\ epc = "returned"
  /\ LET r == eresult.val IN
       /\ assistant_id' = r.assistant_id
       /\ reads' = CountRead(r)
       /\ IF IsRecoverable(r)
            THEN /\ IF RunRetriesRemain(retry_count)
                      THEN /\ retry_count' = retry_count + 1
                           /\ StartCall("create", CreateArgs(r.assistant_id))
                           /\ creates' = creates + 1
                           /\ ppc' = "create_status"
                           /\ presult' = presult
                      ELSE /\ ppc' = "raised"
                           /\ presult' = RunFailed(max_run_retries)
                           /\ ExecIdle
                           /\ UNCHANGED <<retry_count, creates>>
                 /\ UNCHANGED <<cancels, callbacks, timeouts_seen>>
            ELSE IF IsFinal(r)
              THEN /\ IF callback
                        THEN /\ callbacks' = Append(callbacks, r)
                             /\ ppc' = "callback"
                             /\ presult' = presult
                        ELSE /\ callbacks' = callbacks
                             /\ ppc' = "returned"
                             /\ presult' = r
                   /\ ExecIdle
                   /\ UNCHANGED <<retry_count, creates, cancels,
                                  timeouts_seen>>
              ELSE IF RunTimeoutElapsed(elapsed_time)
                THEN /\ timeouts_seen' = timeouts_seen + 1
                     /\ IF RunRetriesRemain(retry_count)
                          THEN /\ retry_count' = retry_count + 1
                               /\ StartCall("cancel", RunArgs(run_id))
                               /\ cancels' = cancels + 1
                               /\ ppc' = "cancel"
                               /\ presult' = presult
                          ELSE /\ ppc' = "raised"
                               /\ presult' = RunTimedOut(run_timeout,
                                                         max_run_retries)
                               /\ ExecIdle
                               /\ UNCHANGED <<retry_count, cancels>>
                     /\ UNCHANGED <<creates, callbacks>>
                ELSE /\ ppc' = "sleep"
                     /\ ExecIdle
                     /\ UNCHANGED <<retry_count, presult, creates, cancels,
                                    callbacks, timeouts_seen>>
  /\ UNCHANGED <<cfgVars, other, interviewVars, poolVars, calls, clockVars,
                 next_id, callback, run_id,
                 poll_sleeps>>

(* Mutation: the session goes on polling the run it has replaced *)
CreateAfterStatusDone_keeps_id ==
  /\ ppc = "create_status"
  /\ epc \in {"returned", "raised"}
  /\ IF epc = "returned"
       THEN /\ assistant_id' = eresult.val.assistant_id
            /\ ppc' = "loop"
            /\ presult' = presult
       ELSE /\ ppc' = "raised"
            /\ presult' = eresult
            /\ UNCHANGED assistant_id
  /\ ExecIdle
  /\ UNCHANGED <<cfgVars, other, interviewVars, poolVars, calls, clockVars,
                 next_id, callback,
                 run_id, retry_count, creates, cancels, poll_sleeps,
                 callbacks, reads, timeouts_seen>>

(* Recreation after a failed/expired/cancelled status *)
CreateAfterStatusDone ==
  /\ ppc = "create_status"
  /\ epc \in {"returned", "raised"}
  /\ IF epc = "returned"
       THEN /\ assistant_id' = eresult.val.assistant_id
            /\ run_id' = eresult.val.id
            /\ ppc' = "loop"
            /\ presult' = presult
       ELSE /\ ppc' = "raised"
            /\ presult' = eresult
            /\ UNCHANGED <<assistant_id, run_id>>
  /\ ExecIdle
  /\ UNCHANGED <<cfgVars, other, interviewVars, poolVars, calls, clockVars,
                 next_id, callback,
                 retry_count, creates, cancels, poll_sleeps, callbacks, reads,
                 timeouts_seen>>

(* Mutation: an error of the cancel call ends the session *)
CancelDone_propagates ==
  /\ ppc = "cancel"
  /\ epc \in {"returned", "raised"}
  /\ IF epc = "returned"
       THEN /\ StartCall("create", CreateArgs(assistant_id))
            /\ creates' = creates + 1
            /\ ppc' = "create_timeout"
            /\ presult' = presult
       ELSE /\ ppc' = "raised"
            /\ presult' = eresult
            /\ ExecIdle
            /\ creates' = creates
  /\ UNCHANGED <<cfgVars, other, interviewVars, poolVars, calls, clockVars,
                 next_id, callback,
                 run_id, assistant_id, retry_count, cancels, poll_sleeps,
                 callbacks, reads, timeouts_seen>>

(* The best-effort cancel is over, whatever its outcome (`except: pass`):   *)
(* recreate                                                                *)
CancelDone ==
  /\ ppc = "cancel"
  /\ epc \in {"returned", "raised"}
  /\ StartCall("create", CreateArgs(assistant_id))
  /\ creates' = creates + 1
  /\ ppc' = "create_timeout"
  /\ UNCHANGED <<cfgVars, other, interviewVars, poolVars, calls, clockVars,
                 next_id, callback, run_id, assistant_id,
                 retry_count, presult, cancels, poll_sleeps,
                 callbacks, reads, timeouts_seen>>

(* Mutation: a run recreated after a timeout gets a budget of its own *)
CreateAfterTimeoutDone_reset ==
  /\ ppc = "create_timeout"
  /\ epc \in {"returned", "raised"}
  /\ IF epc = "returned"
       THEN /\ assistant_id' = eresult.val.assistant_id
            /\ run_id' = eresult.val.id
            /\ StartTimer
            /\ retry_count' = 0
            /\ ppc' = "loop"
            /\ presult' = presult
       ELSE /\ ppc' = "raised"
            /\ presult' = eresult
            /\ UNCHANGED <<assistant_id, run_id, clockVars, retry_count>>
  /\ ExecIdle
  /\ UNCHANGED <<cfgVars, other, interviewVars, poolVars, calls, next_id,
                 callback, creates, cancels, poll_sleeps, callbacks, reads,
                 timeouts_seen>>

(* Recreation after the wall-clock timeout: the timer starts again *)
CreateAfterTimeoutDone ==
  /\ ppc = "create_timeout"
  /\ epc \in {"returned", "raised"}
  /\ IF epc = "returned"
       THEN /\ assistant_id' = eresult.val.assistant_id
            /\ run_id' = eresult.val.id
            /\ StartTimer
            /\ ppc' = "loop"
            /\ presult' = presult
       ELSE /\ ppc' = "raised"
            /\ presult' = eresult
            /\ UNCHANGED <<assistant_id, run_id, clockVars>>
  /\ ExecIdle
  /\ UNCHANGED <<cfgVars, other, interviewVars, poolVars, calls, next_id,
                 callback, retry_count,
                 creates, cancels, poll_sleeps, callbacks, reads,
                 timeouts_seen>>

(* Mutation: the sleep of the loop takes no time *)
PollSleepDone_instant ==
  /\ ppc = "sleep"
  /\ Advance(0)
  /\ poll_sleeps' = poll_sleeps + 1
  /\ ppc' = "loop"
  /\ UNCHANGED <<cfgVars, other, interviewVars, poolVars, calls, next_id,
                 execVars, callback,
                 run_id, assistant_id, retry_count, presult, creates, cancels,
                 callbacks, reads, timeouts_seen>>

(* `await asyncio.sleep(1)` at the end of a non-terminal iteration *)
PollSleepDone ==
  /\ ppc = "sleep"
  /\ Advance(poll_interval)
  /\ poll_sleeps' = poll_sleeps + 1
  /\ ppc' = "loop"
  /\ UNCHANGED <<cfgVars, other, interviewVars, poolVars, calls, next_id,
                 execVars, callback, run_id, assistant_id,
                 retry_count, presult, creates, cancels,
                 callbacks, reads, timeouts_seen>>

(* The steps of a session that was given no callback *)
PollLoopNext ==
  \/ CheckRunStatus
  \/ LoopTest
  \/ RetrieveRaised
  \/ RetrieveReturned
  \/ CreateAfterStatusDone
  \/ CancelDone
  \/ CreateAfterTimeoutDone
  \/ PollSleepDone

PollNext ==
  \/ PollLoopNext
  \/ CallbackDone

Next ==
  \/ CleanupNext
  \/ ExecNext
  \/ PollNext

Spec == Init /\ [][Next]_vars

(* ---------------------------------------------------------------------- *)
(* A session whose run is polled for longer than two reads                 *)
(* ---------------------------------------------------------------------- *)
(* The tunables of a client whose run_timeout leaves room for two sleeps   *)
(* of poll_interval before the run is declared timed out.                  *)
InitWindow ==
  /\ max_retries = MaxSessionRequestRetries
  /\ base_timeout = MaxSessionBaseTimeout
  /\ max_run_retries = MaxSessionRunRetries
  /\ run_timeout = MaxWindowRunTimeout
  /\ Constructed
  /\ NoInterview
  /\ OneSession

SpecWindow == InitWindow /\ [][Next]_vars

(* ---------------------------------------------------------------------- *)
(* Two poll sessions on one client: two coroutines of _check_run_status on *)
(* one event loop, sharing _run_status_check and the thread pool.  The     *)
(* session that runs has its frame in the variables of the module, the one *)
(* that waits for its turn has its frame saved in other.                   *)
(* ---------------------------------------------------------------------- *)
(* The locals of _check_run_status and of _make_api_request_async *)
Frame ==
  [epc |-> epc, func |-> func, args |-> args, retry |-> retry,
   timeout |-> timeout, waiter |-> waiter, last_error |-> last_error,
   eresult |-> eresult,
   invocations |-> invocations, sleeps |-> sleeps, deadlines |-> deadlines,
   outcomes |-> outcomes,
   ppc |-> ppc, callback |-> callback, run_id |-> run_id,
   assistant_id |-> assistant_id, retry_count |-> retry_count,
   presult |-> presult, creates |-> creates, cancels |-> cancels,
   poll_sleeps |-> poll_sleeps, callbacks |-> callbacks, reads |-> reads,
   timeouts_seen |-> timeouts_seen,
   elapsed_time |-> elapsed_time]

(* The frame of a coroutine that has not been started *)
NewFrame ==
  [epc |-> "idle", func |-> "none", args |-> NoArgs, retry |-> 0,
   timeout |-> 0, waiter |-> "none", last_error |-> None,
   eresult |-> None,
   invocations |-> 0, sleeps |-> <<>>, deadlines |-> <<>>,
   outcomes |-> <<>>,
   ppc |-> "idle", callback |-> FALSE, run_id |-> 0,
   assistant_id |-> "none", retry_count |-> 0,
   presult |-> None, creates |-> 0, cancels |-> 0,
   poll_sleeps |-> 0, callbacks |-> <<>>,
   reads |-> [nonterminal |-> 0, recoverable |-> 0, success |-> 0],
   timeouts_seen |-> 0,
   elapsed_time |-> 0]

(* _check_run_status has returned or raised *)
Ended(pc) == pc \in {"returned", "raised", "stopped"}

(* The coroutine that runs is at an await (wait_for on the future of the   *)
(* pool, asyncio.sleep, an awaited callback) or has ended: the event loop  *)
(* gives the turn to another coroutine nowhere else.                       *)
Suspended ==
  \/ epc \in {"running", "queued", "finished", "cancelled", "backoff"}
  \/ ppc \in {"sleep", "callback"}
  \/ Ended(ppc)

(* The work items of the queue, seen from the other session *)
SwapTags(q) ==
  [i \in 1..Len(q) |->
     IF q[i] = "call" THEN "peer" ELSE IF q[i] = "peer" THEN "call" ELSE q[i]]

(* The event loop resumes the other coroutine.  Its timer went on while it *)
(* waited: loop.time() - start_time is what it was or more.                *)
Switch ==
  /\ other # None
  /\ Suspended
  /\ ~Ended(other.ppc)
  /\ other' = Frame
  /\ work_queue' = SwapTags(work_queue)
  /\ epc' = other.epc
  /\ func' = other.func
  /\ args' = other.args
  /\ retry' = other.retry
  /\ timeout' = other.timeout
  /\ waiter' = other.waiter
  /\ last_error' = other.last_error
  /\ eresult' = other.eresult
  /\ invocations' = other.invocations
  /\ sleeps' = other.sleeps
  /\ deadlines' = other.deadlines
  /\ outcomes' = other.outcomes
  /\ ppc' = other.ppc
  /\ callback' = other.callback
  /\ run_id' = other.run_id
  /\ assistant_id' = other.assistant_id
  /\ retry_count' = other.retry_count
  /\ presult' = other.presult
  /\ creates' = other.creates
  /\ cancels' = other.cancels
  /\ poll_sleeps' = other.poll_sleeps
  /\ callbacks' = other.callbacks
  /\ reads' = other.reads
  /\ timeouts_seen' = other.timeouts_seen
  /\ elapsed_time' \in IF other.ppc = "idle"
                         THEN {other.elapsed_time}
                         ELSE other.elapsed_time..run_timeout
  /\ UNCHANGED <<cfgVars, interviewVars, run_status_check, pool_shutdown,
                 cleanup_calls, abandoned, thread_work, thread_future,
                 calls, next_id>>

(* A client whose requests are attempted once runs two sessions, a client  *)
(* whose requests are retried runs one.                                    *)
InitSessions ==
  /\ max_retries \in 1..MaxSessionRequestRetries
  /\ base_timeout = MaxSessionBaseTimeout
  /\ max_run_retries = MaxSessionRunRetries
  /\ run_timeout = MaxSessionRunTimeout
  /\ Constructed
  /\ NoInterview
  /\ other = IF max_retries = 1 THEN NewFrame ELSE None

NextSessions ==
  \/ CleanupNext
  \/ ExecNext
  \/ PeerInvocationEnds
  \/ PollNext
  \/ Switch

SpecSessions == InitSessions /\ [][NextSessions]_vars

NextExec ==
  \/ DirectCall
  \/ RunInThread
  \/ ThreadWorkFinishes
  \/ CleanupNext
  \/ CleanupAgain
  \/ ExecNext

SpecExec == InitExec /\ [][NextExec]_vars

(* ---------------------------------------------------------------------- *)
(* Properties of _make_api_request_async                                   *)
(* ---------------------------------------------------------------------- *)
CallOver == epc \in {"returned", "raised"}

(* Attempts in which the operation ran and failed: it ran past the         *)
(* deadline or it raised.                                                  *)
OperationFailures == {"timeout", "error"}

AllAttemptsFailed ==
  /\ Len(outcomes) > 0
  /\ \A i \in 1..Len(outcomes) : outcomes[i] \in OperationFailures

NumFailed == Cardinality({i \in 1..Len(outcomes) : outcomes[i] # "ok"})

(* C1: a call in which the operation failed on every attempt invoked it    *)
(* exactly max_retries times, slept max_retries - 1 times between the      *)
(* attempts, and ended by raising an error, not by returning a value.      *)
C1_PermanentFailure ==
  (CallOver /\ AllAttemptsFailed) =>
     /\ invocations = max_retries
     /\ Len(outcomes) = max_retries
     /\ Len(sleeps) = max_retries - 1
     /\ epc = "raised"
     /\ eresult.kind \in {"TimeoutError", "APIError"}

C1_Witness ==
  /\ epc = "raised"
  /\ max_retries = 3
  /\ outcomes = <<"timeout", "error", "timeout">>
  /\ invocations = 3
  /\ sleeps = <<1, 2>>

(* C2: the deadline of attempt i (counted from 0) is base_timeout * (i+1), *)
(* so each attempt of a call has a longer deadline than the one before.     *)
C2_DeadlineGrows ==
  /\ \A i \in 1..Len(deadlines) : deadlines[i] = base_timeout * i
  /\ \A i \in 2..Len(deadlines) : deadlines[i] > deadlines[i - 1]
  /\ epc \in {"submit", "running", "queued"} =>
       /\ Len(deadlines) = retry + 1
       /\ timeout = deadlines[retry + 1]

C2_Witness ==
  /\ epc = "running"
  /\ base_timeout = 2
  /\ deadlines = <<2, 4, 6>>
  /\ timeout = 6

(* C3: after a failed attempt i (counted from 0) that is not the last one  *)
(* the call sleeps i + 1 seconds, whatever the failure was; it does not     *)
(* sleep after its last attempt, and a call with max_retries = 1 makes one  *)
(* attempt and never sleeps.                                               *)
C3_Backoff ==
  /\ Len(sleeps) = Min(NumFailed, max_retries - 1)
  /\ \A i \in 1..Len(sleeps) : sleeps[i] = i
  /\ epc = "backoff" => Len(sleeps) = retry + 1
  /\ epc = "raised" => Len(sleeps) = Len(outcomes) - 1
  /\ max_retries = 1 => (sleeps = <<>> /\ Len(deadlines) <= 1)

C3_Witness ==
  /\ epc = "raised"
  /\ max_retries = 3
  /\ outcomes = <<"error", "timeout", "error">>
  /\ sleeps = <<1, 2>>

(* C4: the first attempt that succeeds ends the call with its result: the  *)
(* call then made no attempt after it and slept only between the earlier   *)
(* attempts.                                                               *)
C4_FirstSuccessReturns ==
  /\ \A i \in 1..Len(outcomes) : outcomes[i] = "ok" => i = Len(outcomes)
  /\ (Len(outcomes) > 0 /\ outcomes[Len(outcomes)] = "ok") =>
       /\ epc = "returned"
       /\ eresult.kind = "value"
       /\ eresult.at = Len(outcomes) - 1
       /\ retry = Len(outcomes) - 1
       /\ Len(deadlines) = Len(outcomes)
       /\ invocations <= Len(outcomes)
       /\ Len(sleeps) = Len(outcomes) - 1
  /\ epc = "returned" => outcomes[Len(outcomes)] = "ok"

C4_Witness ==
  /\ epc = "returned"
  /\ max_retries = 3
  /\ outcomes = <<"timeout", "ok">>
  /\ invocations = 2
  /\ sleeps = <<1>>
  /\ eresult.at = 1

LastOutcome == outcomes[Len(outcomes)]

RECURSIVE SumSeq(_)
SumSeq(q) == IF q = <<>> THEN 0 ELSE q[1] + SumSeq(Tail(q))

(* C5 as stated: a call whose last attempt ran into its deadline raises a  *)
(* timeout error that carries the number of attempts and the sum of the    *)
(* deadlines of all attempts.                                              *)
C5_CarriesBudget ==
  (epc = "raised" /\ LastOutcome \in {"timeout", "starved"}) =>
     /\ eresult.kind = "TimeoutError"
     /\ eresult.src = "execute"
     /\ eresult.args = <<max_retries, SumSeq(deadlines)>>

(* C5: a call whose last attempt ran into its deadline raises a            *)
(* TimeoutError of the executor's own, and the number of attempts          *)
(* (max_retries) is all that its message carries.                          *)
C5_CarriesAttempts ==
  (epc = "raised" /\ LastOutcome \in {"timeout", "starved"}) =>
     /\ eresult.kind = "TimeoutError"
     /\ eresult.src = "execute"
     /\ eresult.args = <<max_retries>>
     /\ Len(outcomes) = max_retries

C5_Witness ==
  /\ epc = "raised"
  /\ max_retries = 2
  /\ base_timeout = 2
  /\ outcomes = <<"error", "timeout">>
  /\ eresult.args = <<2>>
  /\ SumSeq(deadlines) = 6

(* C6: a call whose last attempt ended with an error raised by the         *)
(* operation raises that very error, of the same kind, and not a timeout   *)
(* error of the executor.                                                  *)
C6_OriginalErrorReraised ==
  (epc = "raised" /\ LastOutcome = "error") =>
     /\ eresult = last_error
     /\ eresult.src = "op"
     /\ eresult.at = max_retries - 1

(* ---------------------------------------------------------------------- *)
(* Properties of _check_run_status                                         *)
(* ---------------------------------------------------------------------- *)
SuccessStatuses == Statuses \ (NonTerminalStatuses \cup RecoverableStatuses)

AllReadsNonTerminal == reads.recoverable = 0 /\ reads.success = 0

AllReadsRecoverable == reads.nonterminal = 0 /\ reads.success = 0

(* C7: a session whose status reads gave k non-terminal statuses and then  *)
(* a terminal success, none of them after run_timeout had elapsed, slept    *)
(* k times, called the callback once with the final run, cancelled and     *)
(* created no run, and returned the final run: at once without a callback, *)
(* and when the callback has returned with one.                            *)
C7_PollToSuccess ==
  /\ []((ppc = "returned" /\ reads.recoverable = 0 /\ timeouts_seen = 0) =>
          /\ reads.success = 1
          /\ poll_sleeps = reads.nonterminal
          /\ callbacks = IF callback THEN <<presult>> ELSE <<>>
          /\ creates = 0
          /\ cancels = 0
          /\ retry_count = 0
          /\ presult.id = run_id
          /\ presult.status \in SuccessStatuses)
  /\ [][(ppc = "retrieve" /\ ppc' \in {"callback", "returned"}) =>
          /\ epc = "returned"
          /\ eresult.val.status \in SuccessStatuses
          /\ poll_sleeps' = poll_sleeps
          /\ IF callback
               THEN /\ ppc' = "callback"
                    /\ callbacks' = Append(callbacks, eresult.val)
               ELSE /\ ppc' = "returned"
                    /\ presult' = eresult.val
                    /\ callbacks' = callbacks
       ]_vars
  /\ [][(ppc = "callback" /\ ppc' # ppc) =>
          /\ UNCHANGED <<callbacks, poll_sleeps, creates, cancels, func>>
          /\ \/ ppc' = "returned" /\ presult' = callbacks[Len(callbacks)]
             \/ ppc' = "raised" /\ presult'.src = "callback"
       ]_vars

C7_Witness ==
  /\ ppc = "returned"
  /\ callback
  /\ reads = [nonterminal |-> 2, recoverable |-> 0, success |-> 1]
  /\ timeouts_seen = 0
  /\ elapsed_time < run_timeout
  /\ poll_sleeps = 2
  /\ creates = 0 /\ cancels = 0
  /\ presult.status = "completed"
  /\ callbacks = <<presult>>

(* C8: a session never recreates the run more than max_run_retries times;  *)
(* when every status read gives failed, expired or cancelled, each of the   *)
(* first max_run_retries reads recreates the run and the read after them    *)
(* raises the error of the status path.                                    *)
C8_FailedRunRecreated ==
  /\ creates <= max_run_retries
  /\ (ppc = "raised" /\ presult.src = "poll_status") =>
       /\ presult = RunFailed(max_run_retries)
       /\ creates = max_run_retries
       /\ reads.recoverable > 0
       /\ retry_count = max_run_retries
  /\ AllReadsRecoverable =>
       /\ creates = Min(reads.recoverable, max_run_retries)
       /\ cancels = 0
       /\ reads.recoverable <= max_run_retries + 1
       /\ (reads.recoverable = max_run_retries + 1) <=>
            (ppc = "raised" /\ presult = RunFailed(max_run_retries))

C8_Witness ==
  /\ ppc = "raised"
  /\ max_run_retries = 2
  /\ presult = RunFailed(2)
  /\ reads = [nonterminal |-> 0, recoverable |-> 3, success |-> 0]
  /\ creates = 2

(* C9: retry_count is one budget for both recoveries: it starts at 0, a    *)
(* step leaves it alone or adds 1 to it for one recreation, it is never     *)
(* set back, and however failed statuses and timeouts interleave the        *)
(* session issues at most max_run_retries runs.create calls.               *)
C9_SharedBudget ==
  /\ retry_count = 0 /\ creates = 0
  /\ [][/\ retry_count' \in {retry_count, retry_count + 1}
        /\ creates' \in {creates, creates + 1}
        /\ retry_count' = retry_count + 1 =>
             (creates' = creates + 1 \/ cancels' = cancels + 1)
        /\ retry_count' <= max_run_retries
        /\ creates' <= retry_count'
        /\ retry_count' = IF ppc' = "cancel" THEN creates' + 1 ELSE creates'
       ]_vars

C9_Witness ==
  /\ ppc = "raised"
  /\ max_run_retries = 2
  /\ presult = RunFailed(2)
  /\ reads.recoverable = 2
  /\ timeouts_seen = 1
  /\ cancels = 1
  /\ creates = 2
  /\ retry_count = 2

(* A status read has returned a queued or in_progress run and the session  *)
(* is about to act on it.                                                  *)
NonTerminalRead ==
  /\ ppc = "retrieve"
  /\ epc = "returned"
  /\ eresult.val.status \in NonTerminalStatuses

(* In the properties below elapsed_time >= run_timeout reads: more than    *)
(* run_timeout seconds have elapsed (elapsed_time whole seconds and a      *)
(* fraction).                                                              *)

(* C10: a session acting on a queued or in_progress run with more than     *)
(* run_timeout elapsed cancels the run (and then recreates it) while       *)
(* retry_count < max_run_retries, and raises the error of the timeout path  *)
(* when retry_count = max_run_retries; with no more elapsed it sleeps.      *)
(* When no read gave another status, that error comes after exactly         *)
(* max_run_retries cancel and recreate cycles.                             *)
C10_TimeoutRecovery ==
  /\ [](AllReadsNonTerminal =>
          /\ cancels = Min(timeouts_seen, max_run_retries)
          /\ creates = IF ppc = "cancel" THEN cancels - 1 ELSE cancels
          /\ (ppc = "raised" /\ presult.src = "poll_timeout") =>
               /\ presult = RunTimedOut(run_timeout, max_run_retries)
               /\ timeouts_seen = max_run_retries + 1
               /\ cancels = max_run_retries
               /\ creates = max_run_retries)
  /\ [][(NonTerminalRead /\ ppc' # ppc) =>
          IF elapsed_time >= run_timeout
            THEN IF retry_count < max_run_retries
                   THEN /\ ppc' = "cancel"
                        /\ func' = "cancel"
                        /\ cancels' = cancels + 1
                        /\ retry_count' = retry_count + 1
                   ELSE /\ ppc' = "raised"
                        /\ presult' = RunTimedOut(run_timeout, max_run_retries)
                        /\ cancels' = cancels
            ELSE /\ ppc' = "sleep"
                 /\ cancels' = cancels
                 /\ retry_count' = retry_count
       ]_vars
  /\ [][(ppc = "cancel" /\ ppc' # ppc) =>
          (ppc' = "create_timeout" /\ func' = "create"
             /\ creates' = creates + 1)]_vars

C10_Witness ==
  /\ ppc = "raised"
  /\ max_run_retries = 1
  /\ presult = RunTimedOut(run_timeout, 1)
  /\ AllReadsNonTerminal
  /\ timeouts_seen = 2
  /\ cancels = 1
  /\ creates = 1

(* ---------------------------------------------------------------------- *)
(* Properties of the polling loop: timer, cancel, callback, returned run   *)
(* ---------------------------------------------------------------------- *)

(* C11: every recreation of the run, after a failed/expired/cancelled      *)
(* status as well as after the wall-clock timeout, resets the start time:   *)
(* when polling goes on with the new run the elapsed time is 0.            *)
C11_EveryRecreationResetsTimer ==
  [][((ppc \in {"create_status", "create_timeout"}) /\ ppc' = "loop") =>
        elapsed_time' = 0]_vars

(* C12: in timeout recovery an error of the cancel call, raised after the  *)
(* executor's own attempts, does not end the session: the step that        *)
(* follows the cancel call issues the recreate call and changes nothing     *)
(* else, the same step that follows a cancel call that returned.           *)
C12_CancelFailureSwallowed ==
  [][(ppc = "cancel" /\ ppc' # ppc) =>
        /\ epc \in {"returned", "raised"}
        /\ ppc' = "create_timeout"
        /\ func' = "create"
        /\ epc' = "submit"
        /\ retry' = 0
        /\ creates' = creates + 1
        /\ UNCHANGED <<presult, retry_count, cancels, run_id, assistant_id,
                       clockVars, run_status_check, callbacks>>
    ]_vars

C12_Witness ==
  /\ ppc = "cancel"
  /\ epc = "raised"
  /\ max_retries = 2
  /\ outcomes = <<"timeout", "error">>
  /\ eresult.kind = "APIError"
  /\ cancels = 1
  /\ creates = 0

(* C13: the completion callback is invoked at most once in a session, with *)
(* the run the session returns, whose status is a terminal success; a       *)
(* session that stopped on the flag or that raised, unless it raised the    *)
(* callback's own error, has not invoked it.                               *)
C13_CallbackOnceOnSuccess ==
  /\ Len(callbacks) <= 1
  /\ \A i \in 1..Len(callbacks) :
       callbacks[i].status \notin
         {"queued", "in_progress", "failed", "expired", "cancelled"}
  /\ callbacks # <<>> =>
       /\ callback
       /\ \/ ppc = "callback"
          \/ ppc = "returned" /\ presult = callbacks[1]
          \/ ppc = "raised" /\ presult.src = "callback"
  /\ (ppc = "stopped" \/ (ppc = "raised" /\ presult.src # "callback")) =>
       callbacks = <<>>
  /\ (ppc = "returned" /\ callback) => Len(callbacks) = 1

C13_Witness ==
  /\ ppc = "returned"
  /\ callback
  /\ Len(callbacks) = 1
  /\ callbacks[1].status = "completed"
  /\ reads.recoverable = 1
  /\ reads.nonterminal >= 1
  /\ creates = 1

(* C14: a run returned by a session has a status other than queued,        *)
(* in_progress, failed, expired and cancelled.  A queued or in_progress     *)
(* read leads to the sleep before the next read or to the timeout           *)
(* handling (cancel, or the timeout error); a failed, expired or cancelled  *)
(* read leads to the recreation or to the exhaustion error.                 *)
C14_ReturnedRunIsTerminalSuccess ==
  /\ [](ppc = "returned" =>
          presult.status \notin
            {"queued", "in_progress", "failed", "expired", "cancelled"})
  /\ [][(ppc = "retrieve" /\ epc = "returned" /\ ppc' # ppc) =>
          LET st == eresult.val.status IN
            /\ st \in {"queued", "in_progress"} =>
                 /\ ppc' \in {"sleep", "cancel", "raised"}
                 /\ ppc' = "raised" => presult'.src = "poll_timeout"
            /\ st \in {"failed", "expired", "cancelled"} =>
                 /\ ppc' \in {"create_status", "raised"}
                 /\ ppc' = "raised" => presult'.src = "poll_status"
            /\ ppc' = "returned" => presult' = eresult.val
       ]_vars

C14_Witness ==
  /\ ppc = "returned"
  /\ presult.status = "requires_action"
  /\ timeouts_seen = 1
  /\ reads.recoverable = 1
  /\ creates = 2

(* ---------------------------------------------------------------------- *)
(* Properties of the stop flag and of the pace of the loop                 *)
(* ---------------------------------------------------------------------- *)
SessionRunning == ppc \notin {"idle", "returned", "raised", "stopped"}

BudgetErrors == {"poll_status", "poll_timeout"}

(* C15 as stated: a session that is running with the stop flag cleared     *)
(* does not end by raising the run-failed-after-retries error or the       *)
(* run-timed-out error.                                                    *)
C15_StopNeverExhausts ==
  [][(~run_status_check /\ SessionRunning /\ ppc' = "raised") =>
        presult'.src \notin BudgetErrors]_vars

(* C15, amended: with the flag cleared a session at the top of the loop    *)
(* issues no status read and ends by returning None, without raising; a    *)
(* budget error can still be raised, but only by the iteration whose       *)
(* status read had been issued, when that read returns with the budget     *)
(* spent.                                                                  *)
C15_StopObservedAtLoopTop ==
  /\ [](ppc = "stopped" =>
          (~run_status_check /\ presult = None /\ epc = "idle"))
  /\ [][(~run_status_check /\ ppc = "loop" /\ ppc' # ppc) =>
          (ppc' = "stopped" /\ presult' = None /\ UNCHANGED execVars)]_vars
  /\ [][(~run_status_check /\ SessionRunning /\ ppc' = "raised"
           /\ presult'.src \in BudgetErrors) =>
          (ppc = "retrieve" /\ epc = "returned"
             /\ retry_count = max_run_retries)]_vars

C15_Witness ==
  /\ ppc = "stopped"
  /\ presult = None
  /\ ~run_status_check
  /\ reads.nonterminal >= 1
  /\ reads.recoverable = 1
  /\ creates = 1

(* The status reads a session has completed *)
ReadsOf(f) == f.reads.nonterminal + f.reads.recoverable + f.reads.success

(* A step that takes the frame of a session from f to g: with the stop     *)
(* flag false the session starts no status read, the sleep of the          *)
(* iteration it is in leads to the top of the loop, where it stops; a      *)
(* stopped session stays stopped and issues no call.                       *)
StopStep(f, g) ==
  /\ ~run_status_check =>
       /\ ~(g.func = "retrieve" /\ f.func # "retrieve")
       /\ ReadsOf(g) <= ReadsOf(f) + 1
       /\ g.poll_sleeps > f.poll_sleeps =>
            (f.ppc = "sleep" /\ g.ppc = "loop"
               /\ g.poll_sleeps = f.poll_sleeps + 1)
       /\ f.ppc = "loop" => g.ppc \in {"loop", "stopped"}
  /\ f.ppc = "stopped" =>
       /\ g.ppc = "stopped"
       /\ g.func = "none" /\ g.epc = "idle"
       /\ g.creates = f.creates /\ g.cancels = f.cancels
       /\ g.reads = f.reads /\ g.poll_sleeps = f.poll_sleeps
       /\ g.invocations = f.invocations
       /\ g.presult = f.presult /\ g.callbacks = f.callbacks

(* C16: once the stop flag is false every session of the client, the one   *)
(* that runs and the one that waits for its turn on the event loop, starts *)
(* no new iteration, whatever the status of its run: it starts no status   *)
(* read, the sleep of the iteration it is in leads to the top of the loop, *)
(* where it stops, and a stopped session stays stopped and issues no       *)
(* status read, no cancel and no recreate call.                            *)
C16_StopEndsSession ==
  [][IF other = None
       THEN StopStep(Frame, Frame')
       ELSE IF Switch
         THEN StopStep(Frame, other') /\ StopStep(other, Frame')
         ELSE StopStep(Frame, Frame') /\ StopStep(other, other')
    ]_vars

(* Both sessions were in an iteration when the flag was cleared, one of    *)
(* them went through a cancel and a recreation in that iteration, and both *)
(* have stopped at the top of the loop.                                    *)
C16_Witness ==
  /\ ~run_status_check
  /\ ppc = "stopped" /\ epc = "idle"
  /\ poll_sleeps >= 1
  /\ timeouts_seen = 1 /\ cancels = 1 /\ creates = 1
  /\ other # None
  /\ other.ppc = "stopped" /\ other.epc = "idle"
  /\ other.poll_sleeps >= 1
  /\ other.reads.nonterminal >= 1

(* C17 as stated: when a status read is issued, every earlier iteration    *)
(* whose read returned queued or in_progress has slept.                    *)
C17_EveryNonTerminalIterationSleeps ==
  ppc = "retrieve" => poll_sleeps >= reads.nonterminal

(* C17, amended: when a status read is issued, every earlier iteration     *)
(* whose read returned queued or in_progress has slept once, for            *)
(* poll_interval = 1 second, except the iterations that went into the       *)
(* timeout recovery: after the cancel and recreate calls the next read is   *)
(* issued without a sleep.                                                 *)
C17_SleepUnlessTimeoutRecovery ==
  /\ [](ppc = "retrieve" => poll_sleeps = reads.nonterminal - cancels)
  /\ [][poll_sleeps' # poll_sleeps =>
          /\ ppc = "sleep" /\ ppc' = "loop"
          /\ poll_sleeps' = poll_sleeps + 1
          /\ elapsed_time' >= Min(elapsed_time + poll_interval, run_timeout)
       ]_vars
  /\ [][(NonTerminalRead /\ ppc' # ppc /\ ppc' # "sleep") =>
          (elapsed_time >= run_timeout /\ ppc' \in {"cancel", "raised"})
       ]_vars
  /\ [][(ppc = "create_timeout" /\ ppc' = "loop") =>
          (poll_sleeps' = poll_sleeps /\ elapsed_time' = 0)]_vars

C17_Witness ==
  /\ ppc = "retrieve"
  /\ reads.nonterminal = 2
  /\ reads.recoverable = 0
  /\ poll_sleeps = 1
  /\ cancels = 1
  /\ creates = 1

(* ---------------------------------------------------------------------- *)
(* Properties of the worker pool                                           *)
(* ---------------------------------------------------------------------- *)

(* Invocations on a worker: the ones given up at their deadline and not    *)
(* finished yet, and the one the caller is waiting for.                    *)
InExecution == abandoned + (IF epc = "running" THEN 1 ELSE 0)

(* C18 as stated: at no time are two worker-thread invocations of the      *)
(* session in execution, an invocation being in execution from the moment   *)
(* a worker starts it until it finishes.                                   *)
C18_OneInvocationInExecution == InExecution <= 1

(* C18, amended: the calls of a session and their attempts are sequential  *)
(* for the session, which starts a call only when it awaits no other, and   *)
(* an invocation only when it waits for no other invocation (a worker      *)
(* starts it at the submission or takes it from the queue, at the latest    *)
(* while a cleanup() waits for the pool); invocations overlap only with     *)
(* the ones given up at a deadline, which go on running, and never more     *)
(* than max_workers = 4 are in execution.                                  *)
C18_SequentialCallsOverlappingInvocations ==
  /\ [](InExecution <= 4)
  /\ [][(func' # func /\ func' # "none") =>
          (epc \in {"idle", "returned", "raised"} /\ epc' = "submit"
             /\ invocations' = 0)]_vars
  /\ [][invocations' # invocations =>
          \/ epc' \in {"submit", "idle"} /\ invocations' = 0
          \/ /\ invocations' = invocations + 1
             /\ \/ epc \in {"submit", "queued"} /\ epc' = "running"
                \/ epc = "queued" /\ epc' = "finished" /\ abandoned' = 0]_vars
  /\ [][abandoned' > abandoned =>
          (epc = "running" /\ epc' \in {"backoff", "raised"}
             /\ abandoned' = abandoned + 1
             /\ outcomes' = Append(outcomes, "timeout"))]_vars

C18_Witness ==
  /\ ppc = "create_timeout"
  /\ func = "create"
  /\ epc = "running"
  /\ abandoned = 3
  /\ retry = 1
  /\ outcomes = <<"timeout">>

Starved(i) == outcomes[i] = "starved"

Range(q) == {q[i] : i \in 1..Len(q)}

AllAttemptsStarved ==
  /\ Len(outcomes) > 0
  /\ \A i \in 1..Len(outcomes) : Starved(i)

(* C19 as stated: a work item that waited in the queue is executed, and    *)
(* no call fails because the pool was saturated.                           *)
C19_QueuedCallsExecuted ==
  /\ \A i \in 1..Len(outcomes) : ~Starved(i)
  /\ ~(epc = "raised" /\ AllAttemptsStarved)

(* C19, amended: a work item waits in the queue only while the 4 workers   *)
(* are busy, and the pool rejects one only when shut down.  A queued item   *)
(* is started when a worker finishes (one invocation given up or one work   *)
(* item of _run_in_thread ends, or a cleanup() keeps the event loop waiting *)
(* until the pool has done all its work) before the cancellation of         *)
(* wait_for reaches the pool.  Started after wait_for gave up at the        *)
(* deadline it is executed, and its attempt is a timeout all the same.      *)
(* Still in the queue when the cancellation reaches the pool, it is taken   *)
(* out of the queue, it is never executed and the attempt is a timeout: a   *)
(* call whose every attempt ends so raises the timeout error without one    *)
(* invocation of the operation.                                            *)
C19_QueuedUntilDeadline ==
  /\ [](epc = "queued" =>
          (abandoned + thread_work = max_workers /\ "call" \in Range(work_queue)))
  /\ [](epc = "cancelled" =>
          (waiter = "cancelled" /\ "call" \notin Range(work_queue)))
  /\ [](BusyWorkers <= max_workers)
  /\ [](\A i \in 1..Len(outcomes) :
          outcomes[i] = "rejected" => pool_shutdown)
  /\ [](invocations =
          Cardinality({i \in 1..Len(outcomes) :
                         outcomes[i] \notin {"starved", "rejected"}})
            + (IF epc \in {"running", "finished"} THEN 1 ELSE 0))
  /\ []((epc = "raised" /\ AllAttemptsStarved) =>
          /\ invocations = 0
          /\ Len(outcomes) = max_retries
          /\ eresult = RequestTimedOut(max_retries - 1, max_retries))
  /\ [][(epc = "queued" /\ epc' # "queued") =>
          \/ /\ epc' = "running"
             /\ Head(work_queue) = "call"
             /\ abandoned' + thread_work' = abandoned + thread_work - 1
             /\ invocations' = invocations + 1
             /\ waiter \in {"none", "timed_out"}
             /\ UNCHANGED <<outcomes, waiter>>
          \/ /\ epc' = "finished"
             /\ cleanup_calls' = cleanup_calls + 1
             /\ abandoned' = 0 /\ thread_work' = 0 /\ work_queue' = <<>>
             /\ invocations' = invocations + 1
             /\ waiter \in {"none", "timed_out"}
             /\ UNCHANGED <<outcomes, waiter>>
          \/ /\ epc' = "cancelled"
             /\ waiter = "timed_out" /\ waiter' = "cancelled"
             /\ "call" \notin Range(work_queue')
             /\ Len(work_queue') = Len(work_queue) - 1
             /\ UNCHANGED <<outcomes, invocations, abandoned, thread_work>>
       ]_vars
  /\ [][(epc = "cancelled" /\ epc' # "cancelled") =>
          /\ epc' = IF retry < max_retries - 1 THEN "backoff" ELSE "raised"
          /\ outcomes' = Append(outcomes, "starved")
          /\ last_error' = WaitForTimeout(retry)
          /\ UNCHANGED <<invocations, abandoned, thread_work, work_queue>>
       ]_vars
  /\ [][(waiter = "cancelled" /\ epc # "cancelled" /\ epc' # epc) =>
          \/ /\ epc = "running" /\ epc' = "finished"
             /\ UNCHANGED <<outcomes, invocations, waiter>>
          \/ /\ epc' \in {"backoff", "raised"}
             /\ outcomes' = Append(outcomes, "timeout")
             /\ last_error' = WaitForTimeout(retry)
             /\ invocations' = invocations
             /\ invocations >= 1
       ]_vars

C19_Witness ==
  /\ epc = "raised"
  /\ max_retries = 2
  /\ outcomes = <<"starved", "starved">>
  /\ invocations = 0
  /\ abandoned = 4
  /\ eresult = RequestTimedOut(1, 2)

C21_ErrorNamesTrigger ==
  /\ []((ppc = "raised" /\ presult.src \in {"poll_status", "poll_timeout"}) =>
          /\ retry_count = max_run_retries
          /\ presult.src = "poll_status" =>
               (presult.kind = "Exception"
                  /\ presult.args = <<max_run_retries>>)
          /\ presult.src = "poll_timeout" =>
               (presult.kind = "TimeoutError"
                  /\ presult.args = <<run_timeout, max_run_retries>>))
  /\ [][(ppc = "retrieve" /\ epc = "returned" /\ ppc' = "raised") =>
          LET st == eresult.val.status IN
            /\ retry_count = max_run_retries
            /\ st \in {"failed", "expired", "cancelled"} <=>
                 (presult'.kind = "Exception" /\ presult'.src = "poll_status")
            /\ (st \in {"queued", "in_progress"}
                  /\ elapsed_time >= run_timeout) <=>
                 (presult'.kind = "TimeoutError"
                    /\ presult'.src = "poll_timeout")
       ]_vars

C21_Witness ==
  /\ ppc = "raised"
  /\ max_run_retries = 2
  /\ presult = RunTimedOut(run_timeout, 2)
  /\ reads.recoverable = 1
  /\ timeouts_seen = 2
  /\ creates = 2

(* C22: a call made after cleanup ends at its first attempt: the attempt   *)
(* is refused by the closed pool, and the call raises that error without    *)
(* a backoff sleep and without another attempt.                            *)
C22_FailsFastAfterCleanup ==
  (Len(outcomes) >= 1 /\ outcomes[1] = "rejected") =>
     /\ pool_shutdown
     /\ epc = "raised"
     /\ eresult = PoolClosed(0)
     /\ Len(outcomes) = 1
     /\ sleeps = <<>>
     /\ retry = 0

(* C23: a cleanup called on a client already torn down returns, leaves     *)
(* the stop flag false and the pool shut down, as they were, and submits    *)
(* nothing: no call is started, no attempt is made, no session moves and    *)
(* no operation that was invoked is invoked again.  It only waits, when it  *)
(* keeps the event loop waiting, for the work the pool had accepted before  *)
(* the first cleanup: the invocations in execution end and a work item      *)
(* still in the queue is executed, once.                                   *)
C23_SecondCleanupSubmitsNothing ==
  /\ [](cleanup_calls >= 1 => (~run_status_check /\ pool_shutdown))
  /\ [][(cleanup_calls >= 1 /\ cleanup_calls' # cleanup_calls) =>
          /\ cleanup_calls' = cleanup_calls + 1
          /\ ~run_status_check' /\ pool_shutdown'
          /\ UNCHANGED <<run_status_check, pool_shutdown, calls, func, args,
                         retry, timeout, waiter, last_error, eresult, sleeps,
                         deadlines, outcomes, thread_future, pollVars,
                         clockVars, next_id>>
          /\ \/ UNCHANGED <<abandoned, thread_work, work_queue, epc,
                            invocations>>
             \/ /\ abandoned' = 0 /\ thread_work' = 0 /\ work_queue' = <<>>
                /\ epc' = IF epc \in {"running", "queued"}
                            THEN "finished" ELSE epc
                /\ invocations' = IF epc = "queued" THEN invocations + 1
                                                    ELSE invocations
       ]_vars

C23_Witness ==
  /\ cleanup_calls = 2
  /\ ~run_status_check
  /\ pool_shutdown
  /\ epc = "raised"
  /\ outcomes = <<"rejected", "rejected">>
  /\ invocations = 0
  /\ calls = 2

(* C24: a status read or a cancel call of the session is made for the      *)
(* session's thread and for the run created last (the run given to the      *)
(* session as long as none was created), whose id is above the ids of the   *)
(* runs it replaced; a recreate call is made for the same thread and with   *)
(* the assistant id of the run read last, the one being replaced; a          *)
(* successful recreation makes the id of the new run the current one.       *)
C24_CallsTargetCurrentRun ==
  /\ [](func \in {"retrieve", "cancel"} =>
          /\ args = [thread_id |-> "thread", run_id |-> run_id]
          /\ run_id = next_id - 1)
  /\ []((func = "create" /\ ppc # "idle") =>
          args = [thread_id |-> "thread", assistant_id |-> assistant_id])
  /\ [][(ppc \in {"create_status", "create_timeout"} /\ ppc' = "loop") =>
          /\ run_id' = eresult.val.id
          /\ run_id' > run_id
          /\ run_id' = next_id - 1
          /\ assistant_id' = assistant_id
       ]_vars
  /\ [][run_id' # run_id =>
          (ppc \in {"create_status", "create_timeout"} /\ epc = "returned")
       ]_vars

C24_Witness ==
  /\ ppc = "cancel"
  /\ func = "cancel"
  /\ epc = "running"
  /\ args = RunArgs(1)
  /\ run_id = 1
  /\ next_id = 2
  /\ creates = 1
  /\ cancels = 2

(* C25: the status of the run read is looked at before the clock.  With    *)
(* more than run_timeout elapsed, a read of a terminal success ends the     *)
(* session with that run (handed to the callback first, if there is one),   *)
(* and a failed, expired or cancelled read is                               *)
(* recreated, or raises the error of the statuses when the budget is        *)
(* spent, without a cancel call; a timeout is counted only on a queued or   *)
(* in_progress read.                                                       *)
C25_StatusBeforeClock ==
  /\ [][(ppc = "retrieve" /\ epc = "returned" /\ ppc' # ppc
           /\ elapsed_time >= run_timeout) =>
          LET st == eresult.val.status IN
            /\ st \notin {"queued", "in_progress"} =>
                 UNCHANGED <<cancels, timeouts_seen>>
            /\ st \notin {"queued", "in_progress", "failed", "expired",
                          "cancelled"} =>
                 IF callback
                   THEN /\ ppc' = "callback"
                        /\ callbacks' = Append(callbacks, eresult.val)
                   ELSE ppc' = "returned" /\ presult' = eresult.val
            /\ st \in {"failed", "expired", "cancelled"} =>
                 IF retry_count < max_run_retries
                   THEN ppc' = "create_status" /\ func' = "create"
                   ELSE ppc' = "raised" /\ presult'.kind = "Exception"
                          /\ presult'.src = "poll_status"
       ]_vars
  /\ [][timeouts_seen' # timeouts_seen =>
          /\ ppc = "retrieve" /\ epc = "returned"
          /\ eresult.val.status \in {"queued", "in_progress"}
          /\ elapsed_time >= run_timeout
          /\ timeouts_seen' = timeouts_seen + 1
       ]_vars

C25_Witness ==
  /\ ppc = "returned"
  /\ presult.status = "completed"
  /\ elapsed_time >= run_timeout
  /\ reads = [nonterminal |-> 1, recoverable |-> 0, success |-> 1]
  /\ timeouts_seen = 0
  /\ cancels = 0

(* C26: when a status read or a recreate call raises, after the attempts   *)
(* of the executor, the session raises that error at once: retry_count is   *)
(* left alone, no call is started and the callback is not invoked.  The     *)
(* two budgets do not touch: every call starts at attempt 0 with at most    *)
(* max_retries attempts whatever retry_count is, and no attempt changes     *)
(* retry_count.                                                            *)
C26_RequestFailureEndsSession ==
  /\ [][(ppc \in {"retrieve", "create_status", "create_timeout"}
           /\ epc = "raised" /\ ppc' # ppc) =>
          /\ ppc' = "raised"
          /\ presult' = eresult
          /\ epc' = "idle" /\ func' = "none"
          /\ UNCHANGED <<retry_count, creates, cancels, callbacks, reads,
                         run_id, poll_sleeps>>
       ]_vars
  /\ []((ppc = "raised"
           /\ presult.src \notin {"poll_status", "poll_timeout", "callback"})
          => callbacks = <<>>)
  /\ [](Len(outcomes) <= max_retries /\ retry < max_retries)
  /\ [][(retry' > retry \/ Len(outcomes') > Len(outcomes)) =>
          retry_count' = retry_count]_vars
  /\ [][retry_count' # retry_count =>
          (epc' = "submit" /\ retry' = 0 /\ timeout' = base_timeout
             /\ outcomes' = <<>>)]_vars

C26_Witness ==
  /\ ppc = "raised"
  /\ presult = RequestTimedOut(1, 2)
  /\ max_run_retries = 2
  /\ retry_count = 1
  /\ reads.recoverable = 1
  /\ creates = 1
  /\ callback
  /\ callbacks = <<>>

(* C28: when every attempt of a call failed, the error raised is decided   *)
(* by the last attempt alone: the timeout error of the executor when the    *)
(* last attempt timed out, the last attempt's own error otherwise; it is    *)
(* never the error of an earlier attempt.                                  *)
C28_FinalAttemptDecides ==
  (epc = "raised" /\ Len(outcomes) = max_retries) =>
     IF LastOutcome \in {"timeout", "starved"}
       THEN eresult = RequestTimedOut(max_retries - 1, max_retries)
       ELSE /\ eresult = last_error
            /\ eresult.at = max_retries - 1
            /\ eresult.src \in {"op", "pool"}

(* ---------------------------------------------------------------------- *)
(* Termination of a session                                                *)
(* ---------------------------------------------------------------------- *)

(* The event loop resumes a coroutine that can go on, a worker thread      *)
(* finishes the operation it runs, and a timer that is due fires.          *)
(* The tunables of a client whose poll sessions are followed to their end *)
InitFair ==
  /\ max_retries \in 1..MaxSessionRequestRetries
  /\ base_timeout = MaxSessionBaseTimeout
  /\ max_run_retries \in 1..MaxSessionRunRetries
  /\ run_timeout \in 1..MaxSessionRunTimeout
  /\ Constructed
  /\ NoInterview
  /\ OneSession

SpecFair ==
  InitFair /\ [][Next]_vars /\ WF_vars(ExecNext) /\ WF_vars(PollNext)

SessionOver == ppc \in {"returned", "raised", "stopped"}

(* C27: a session that has started ends: it returns a run, raises or stops *)
(* on the flag.  Until then it has recreated the run at most                *)
(* max_run_retries times, and it reads a run that stays queued or           *)
(* in_progress at most run_timeout + 1 times before the timeout check       *)
(* fires, the reads being a second apart.                                  *)
C27_SessionTerminates ==
  /\ (ppc = "loop") ~> SessionOver
  /\ [](creates <= max_run_retries /\ cancels <= max_run_retries)
  /\ [](reads.recoverable <= max_run_retries + 1 /\ reads.success <= 1)
  /\ [](reads.nonterminal <= (run_timeout + 1) * (cancels + 1))
  /\ [][SessionOver => (SessionOver' /\ UNCHANGED pollVars)]_vars

C27_Witness ==
  /\ ppc = "raised"
  /\ presult = RunTimedOut(run_timeout, max_run_retries)
  /\ creates = max_run_retries
  /\ cancels = max_run_retries
  /\ reads.nonterminal = (run_timeout + 1) * (max_run_retries + 1)

(* ---------------------------------------------------------------------- *)
(* InterviewSession.start_interview and submit_answer                      *)
(* ---------------------------------------------------------------------- *)
(* One call of one of the two methods: ipc is the await the method is at,  *)
(* iresult what it returned or raised, is_completed the flag of the config *)
(* object that the methods read and write.                                 *)

ThreadArgs == [thread_id |-> thread_id]

(* raise TimeoutError("The interview start process timed out. ...") *)
InterviewTimedOut ==
  [kind |-> "TimeoutError", src |-> "interview", at |-> 0, args |-> <<>>]

(* self.thread.id with self.thread = None:                                 *)
(* AttributeError("'NoneType' object has no attribute 'id'")               *)
NoThread ==
  [kind |-> "AttributeError", src |-> "submit_answer", at |-> 0,
   args |-> <<>>]

(* return "The interview has already been completed. ..." *)
CompletedNotice == [kind |-> "notice", message_type |-> "none"]

(* What reading the reply raises: the errors of the inner except clause    *)
(* (json.JSONDecodeError, KeyError, IndexError: logged, re-raised) and the *)
(* others (a reply that is no object: TypeError; a content part without    *)
(* text: AttributeError), which pass it.  All of them reach the method's   *)
(* `except Exception`.                                                     *)
ResponseErrors ==
  {[kind |-> k, src |-> "process", at |-> 0, args |-> <<>>] :
     k \in {"JSONDecodeError", "KeyError", "IndexError", "TypeError",
            "AttributeError"}}

(* response_data["data"]["message_type"] *)
MessageTypes == {"question", "final_evaluation", "other"}

(* `except TimeoutError` raises a new TimeoutError, `except Exception`     *)
(* re-raises                                                               *)
InterviewRaises(e) ==
  /\ ipc' = "raised"
  /\ iresult' = IF e.kind = "TimeoutError" THEN InterviewTimedOut ELSE e

(* start_interview is called:                                              *)
(* self.thread = await _make_api_request_async(threads.create)             *)
StartInterview ==
  /\ ipc = "entry"
  /\ epc = "idle"
  /\ StartCall("threads.create", NoArgs)
  /\ ipc' = "thread"
  /\ UNCHANGED <<cfgVars, other, poolVars, calls, clockVars, next_id, pollVars,
                 iresult, is_completed, thread>>

(* submit_answer is called: the notice when the interview is completed,    *)
(* otherwise message = await _make_api_request_async(messages.create,      *)
(* thread_id=self.thread.id, ...), whose argument raises on a session      *)
(* without a thread; `except Exception` logs that error and re-raises it.  *)
SubmitAnswer ==
  /\ ipc = "entry"
  /\ epc = "idle"
  /\ IF is_completed
       THEN /\ ipc' = "returned"
            /\ iresult' = CompletedNotice
            /\ UNCHANGED execVars
       ELSE IF thread = None
         THEN /\ InterviewRaises(NoThread)
              /\ UNCHANGED execVars
         ELSE /\ StartCall("messages.create", ThreadArgs)
              /\ ipc' = "message"
              /\ iresult' = iresult
  /\ UNCHANGED <<cfgVars, other, poolVars, calls, clockVars, next_id, pollVars,
                 is_completed, thread>>

(* start_interview after threads.create, whose error is raised as it is,   *)
(* outside the try block: self.config.reset() and                          *)
(* message = await _make_api_request_async(messages.create, ...)           *)
MessageCreate ==
  /\ ipc = "thread"
  /\ epc \in {"returned", "raised"}
  /\ IF epc = "returned"
       THEN /\ thread' = [id |-> thread_id]
            /\ is_completed' = FALSE
            /\ StartCall("messages.create", ThreadArgs)
            /\ ipc' = "message"
            /\ iresult' = iresult
       ELSE /\ ipc' = "raised"
            /\ iresult' = eresult
            /\ ExecIdle
            /\ UNCHANGED <<is_completed, thread>>
  /\ UNCHANGED <<cfgVars, other, poolVars, calls, clockVars, next_id, pollVars>>

(* run = await _make_api_request_async(threads.runs.create, ...) *)
RunCreate ==
  /\ ipc = "message"
  /\ epc \in {"returned", "raised"}
  /\ IF epc = "returned"
       THEN /\ StartCall("create", CreateArgs("interviewer"))
            /\ ipc' = "run"
            /\ iresult' = iresult
       ELSE /\ InterviewRaises(eresult)
            /\ ExecIdle
  /\ UNCHANGED <<cfgVars, other, poolVars, calls, clockVars, next_id, pollVars,
                 is_completed, thread>>

(* await self.api_client._check_run_status(self.thread.id, run.id) *)
PollRun ==
  /\ ipc = "run"
  /\ epc \in {"returned", "raised"}
  /\ IF epc = "returned"
       THEN /\ run_id' = eresult.val.id
            /\ ipc' = "poll"
            /\ iresult' = iresult
       ELSE /\ InterviewRaises(eresult)
            /\ run_id' = run_id
  /\ ExecIdle
  /\ UNCHANGED <<cfgVars, other, poolVars, calls, clockVars, next_id, ppc,
                 callback, assistant_id, retry_count, presult, creates,
                 cancels, poll_sleeps, callbacks, reads, timeouts_seen,
                 is_completed, thread>>

(* The poll session is over, its return value is dropped;                  *)
(* messages = await _make_api_request_async(threads.messages.list, ...)    *)
MessagesList ==
  /\ ipc = "poll"
  /\ ppc \in {"returned", "stopped", "raised"}
  /\ IF ppc = "raised"
       THEN /\ InterviewRaises(presult)
            /\ UNCHANGED execVars
       ELSE /\ StartCall("messages.list", ThreadArgs)
            /\ ipc' = "list"
            /\ iresult' = iresult
  /\ UNCHANGED <<cfgVars, other, poolVars, calls, clockVars, next_id, pollVars,
                 is_completed, thread>>

(* return await self._process_response(messages): a final evaluation sets  *)
(* config.is_completed                                                     *)
ProcessResponse ==
  /\ ipc = "list"
  /\ epc \in {"returned", "raised"}
  /\ IF epc = "returned"
       THEN \/ /\ ipc' = "returned"
               /\ \E t \in MessageTypes :
                    /\ iresult' = [kind |-> "response", message_type |-> t]
                    /\ is_completed' =
                         (is_completed \/ t = "final_evaluation")
            \/ /\ \E e \in ResponseErrors : InterviewRaises(e)
               /\ is_completed' = is_completed
       ELSE /\ InterviewRaises(eresult)
            /\ is_completed' = is_completed
  /\ ExecIdle
  /\ UNCHANGED <<cfgVars, other, poolVars, calls, clockVars, next_id, pollVars,
                 thread>>

InterviewNext ==
  \/ StartInterview
  \/ SubmitAnswer
  \/ MessageCreate
  \/ RunCreate
  \/ PollRun
  \/ MessagesList
  \/ ProcessResponse

(* A client of an InterviewSession one of whose two methods is about to be *)
(* called, on an interview that is completed or not: the session has just  *)
(* been constructed (self.thread = None) or start_interview has run on it. *)
InitInterview ==
  /\ max_retries \in 1..MaxSessionRequestRetries
  /\ base_timeout \in 1..MaxSessionBaseTimeout
  /\ max_run_retries \in 1..MaxSessionRunRetries
  /\ run_timeout \in 1..MaxSessionRunTimeout
  /\ Constructed
  /\ ipc = "entry"
  /\ iresult = None
  /\ is_completed \in BOOLEAN
  /\ thread \in {None, [id |-> thread_id]}
  /\ OneSession

NextInterview ==
  \/ CleanupNext
  \/ ExecNext
  \/ PollLoopNext
  \/ InterviewNext

SpecInterview == InitInterview /\ [][NextInterview]_vars


(* The awaits of a method in the order of its try block *)
InterviewOrder ==
  {<<"entry", "thread">>, <<"thread", "message">>, <<"entry", "message">>,
   <<"message", "run">>, <<"run", "poll">>, <<"poll", "list">>,
   <<"list", "returned">>, <<"entry", "returned">>,
   <<"thread", "raised">>, <<"message", "raised">>, <<"run", "raised">>,
   <<"poll", "raised">>, <<"list", "raised">>, <<"entry", "raised">>}

PollReturnedSuccess ==
  /\ ppc = "returned"
  /\ presult.status \in SuccessStatuses

(* C29: the method requests the list of messages only after the poll      *)
(* session has returned a run in terminal-success status.                  *)
C29_ListOnlyAfterSuccess ==
  [][(ipc = "poll" /\ ipc' = "list") => PollReturnedSuccess]_vars

(* What does hold of the two methods: the awaits follow each other in the  *)
(* order message create, run create, poll session, messages list, and the  *)
(* poll session starts for the run just created.  The messages are listed  *)
(* once the poll session has returned: a run in terminal-success status,   *)
(* or nothing after the stop flag was cleared.  A step that raises ends    *)
(* the method: no later request is started.                                *)
OrderedAndListAfterPoll ==
  /\ [][ipc' # ipc => <<ipc, ipc'>> \in InterviewOrder]_vars
  /\ [][(ppc = "idle" /\ ppc' = "loop") =>
          (ipc = "poll" /\ run_id >= 1 /\ run_id' = run_id
             /\ func = "none" /\ creates = 0)]_vars
  /\ [][(ipc = "poll" /\ ipc' = "list") =>
          \/ PollReturnedSuccess
          \/ (ppc = "stopped" /\ presult = None /\ ~run_status_check)]_vars
  /\ []((ipc = "returned") =>
          \/ /\ iresult.kind = "response"
             /\ PollReturnedSuccess \/ (ppc = "stopped" /\ presult = None)
          \/ iresult = CompletedNotice /\ is_completed /\ ppc = "idle")
  /\ []((ipc \in {"entry", "thread", "message", "run"}) => ppc = "idle")
  /\ [][(ipc \in {"raised", "returned"}) =>
          (UNCHANGED <<ipc, iresult, is_completed, ppc>> /\ epc' = "idle")]_vars

(* The stop flag was cleared during the poll session by a cleanup() that   *)
(* shut the pool down: the list was started all the same, the pool refused *)
(* it and the method raised.                                               *)
StoppedInterviewRaises ==
  /\ ipc = "raised"
  /\ ppc = "stopped"
  /\ presult = None
  /\ iresult.kind = "RuntimeError"
  /\ iresult.src = "pool"
  /\ reads.nonterminal > 0

(* The stop flag was cleared during the poll session by a cleanup() on     *)
(* another thread that had not shut the pool down yet: the list was        *)
(* executed and the method returned a reply, no read of the run having     *)
(* given a terminal-success status.                                        *)
StoppedInterviewReturnsReply ==
  /\ ipc = "returned"
  /\ iresult.kind = "response"
  /\ ppc = "stopped"
  /\ presult = None
  /\ reads.success = 0
  /\ reads.nonterminal > 0

====
